---- MODULE Spec2Model ----
(***************************************************************************)
(* State-machine model of the AI-Insight-Craft agents:                     *)
(*   - the tool server            (src/server/analyst.py)                  *)
(*   - the CSV analysis agent     (src/csv_agent/csv_agent.py)             *)
(*   - the dashboard agent        (src/dashboardagent.py)                  *)
(* Texts (message contents, responses, file paths) are sequences of        *)
(* one-character strings, so that strip / lower / endswith / "in" are      *)
(* computed the way the Python code computes them.                         *)
(***************************************************************************)
EXTENDS Integers, Sequences, FiniteSets, TLC

\* ------------------------------------------------------------------------
\* Bounds of the model
\* ------------------------------------------------------------------------
\* runs started on one agent object (agent_invocation starts one; the class
\* allows more)
MaxRuns == 2
\* graph steps allowed in one ainvoke.  AgentExecutor keeps recursion_limit
\* but never hands it to ainvoke, so the limit in force is the graph
\* library's own default; the model stands for it with this bound.
GraphStepLimit == 6
\* the same limit where two agents run side by side
SessionStepLimit == 2
\* metrics the language model puts in one dashboard specification
MaxMetrics == 2
\* records of the largest file
MaxRows == 11
\* files one call of execute_polars_sql names
MaxFileLocations == 2
\* agent objects that can be alive at the same time
Agents == {1, 2}

\* ------------------------------------------------------------------------
\* Program constants
\* ------------------------------------------------------------------------
\* AgentExecutor(app, recursion_limit=3): stored in the executor only
recursion_limit == 3
\* router_function: len(messages) > 6
ROUTER_MAX_MESSAGES == 6
\* "Maximum 2 tool calls per question" (INSTRUCTIONS)
MAX_TOOL_CALLS == 2
\* INSTRUCTIONS: rows of a table in the answer
ROW_CAP == 10

\* ------------------------------------------------------------------------
\* Texts
\* ------------------------------------------------------------------------
EMPTY == <<>>
NO_FILE_MESSAGE == <<"N","o"," ","f","i","l","e"," ","i","s"," ","p","r","e","s","e","n","t"," ","a","n","d"," ","t","h","e","r","e"," ","i","s"," ","n","o","t","h","i","n","g"," ","t","o"," ","a","n","a","l","y","z","e",".">>
PARTIAL_RESULT == <<"P","a","r","t","i","a","l"," ","r","e","s","u","l","t"," ","d","u","e"," ","t","o"," ","r","e","c","u","r","s","i","o","n"," ","l","i","m","i","t",".">>
\* (the leading warning sign of the two texts below is left out)
NO_OUTPUT == <<"N","o"," ","o","u","t","p","u","t"," ","r","e","t","u","r","n","e","d",".">>
NO_PROMPT == <<"N","o"," ","p","r","o","m","p","t"," ","p","r","o","v","i","d","e","d"," ","i","n"," ","p","a","y","l","o","a","d",".">>
ERROR_PREFIX == <<"E","r","r","o","r",":"," ">>
WORKFLOW_ERROR_PREFIX == <<"E","r","r","o","r"," ","d","u","r","i","n","g"," ","w","o","r","k","f","l","o","w",":"," ">>
CONNECTION_ERROR_PREFIX == <<"C","o","n","n","e","c","t","i","o","n","/","I","n","i","t","i","a","l","i","z","a","t","i","o","n"," ","e","r","r","o","r",":"," ">>

\* str(e) of the exceptions the model raises
ErrAuth == <<"4","0","1">>
ErrConnect == <<"c","o","n","n","e","c","t">>
ErrTool == <<"t","o","o","l">>
ErrParse == <<"p","a","r","s","e">>
ErrModel == <<"m","o","d","e","l">>
ErrEngine == <<"e","n","g","i","n","e">>
ErrKey == <<"'","p","r","o","m","p","t","'">>
ErrConfig == <<"G","R","O","Q","_","A","P","I","_","K","E","Y">>
ErrArn == <<"'","N","o","n","e","T","y","p","e","'">>
ErrUnsupported == <<"U","n","s","u","p","p","o","r","t","e","d"," ","f","i","l","e"," ","t","y","p","e">>

Whitespace == {" ", "\n", "\t"}

RECURSIVE LStrip(_)
LStrip(s) == IF s = <<>> THEN s
             ELSE IF Head(s) \in Whitespace THEN LStrip(Tail(s)) ELSE s

RECURSIVE RStrip(_)
RStrip(s) == IF s = <<>> THEN s
             ELSE IF s[Len(s)] \in Whitespace
                  THEN RStrip(SubSeq(s, 1, Len(s) - 1)) ELSE s

\* str.strip()
Strip(s) == RStrip(LStrip(s))

LowerChar(c) ==
    CASE c = "A" -> "a" [] c = "C" -> "c" [] c = "D" -> "d" [] c = "E" -> "e"
      [] c = "F" -> "f" [] c = "I" -> "i" [] c = "M" -> "m" [] c = "N" -> "n"
      [] c = "O" -> "o" [] c = "P" -> "p" [] c = "S" -> "s" [] c = "T" -> "t"
      [] OTHER -> c

\* str.lower()
Lower(s) == [i \in 1..Len(s) |-> LowerChar(s[i])]

\* str.endswith(suffix)
EndsWith(s, suffix) ==
    /\ Len(suffix) <= Len(s)
    /\ SubSeq(s, Len(s) - Len(suffix) + 1, Len(s)) = suffix

\* sub in s
Contains(s, sub) ==
    \E i \in 1..(Len(s) - Len(sub) + 1) : SubSeq(s, i, i + Len(sub) - 1) = sub

\* ------------------------------------------------------------------------
\* The tool server (src/server/analyst.py)
\* ------------------------------------------------------------------------
FileA == <<"a",".","c","s","v">>
FileB == <<"b",".","c","s","v">>
FileC == <<"c",".","c","s","v">>
\* the files a user uploads
Files == {FileA, FileB}
\* the files a tool call can name
ServerFiles == {FileA, FileB, FileC}

\* columns of the files on the server: a.csv has two columns, b.csv is a
\* CSV without columns, c.csv has another set of columns than a.csv
FileSchema(f) ==
    CASE f = FileA -> << [name |-> "team", dtype |-> "String"],
                         [name |-> "runs", dtype |-> "Int64"] >>
      [] f = FileC -> << [name |-> "team", dtype |-> "String"],
                         [name |-> "wins", dtype |-> "Int64"] >>
      [] OTHER -> << >>

\* the records of the files: a.csv has MaxRows of them
FileRows(f) ==
    CASE f = FileA -> [i \in 1..MaxRows |->
                          [team |-> IF i % 2 = 1 THEN "MI" ELSE "CSK", runs |-> i]]
      [] f = FileC -> << [team |-> "CSK", wins |-> 7] >>
      [] OTHER -> << >>

\* the result of a tool: ok with a value, or an exception
Ok(v) == [ok |-> TRUE, value |-> v]
Raise(e) == [ok |-> FALSE, value |-> e]

\* the files glob(file_location) finds when the upload folder holds disk
FilesOn(disk) == IF disk = <<>> THEN {} ELSE {disk}

\* get_files_list(): glob(file_location), as the text the tool adapter hands
\* to the caller; the upload folder holds at most one file
get_files_list(disk) == Ok(disk)

\* a variant of read_file that reads every other file type as csv
read_file_default_csv(files, file_location, file_type) ==
    IF file_type # "parquet" /\ file_location \in files
    THEN Ok(file_location) ELSE Raise(ErrTool)

\* read_file(file_location, file_type); all files of the model are CSV files
read_file(files, file_location, file_type) ==
    IF file_type = "csv"
    THEN IF file_location \in files THEN Ok(file_location) ELSE Raise(ErrTool)
    ELSE IF file_type = "parquet"
         THEN Raise(ErrTool)
         ELSE Raise(ErrUnsupported)

\* get_schema(file_location, file_type)
get_schema(files, file_location, file_type) ==
    LET df == read_file(files, file_location, file_type)
    IN IF df.ok THEN Ok(FileSchema(df.value)) ELSE df

\* Queries the model (language model or question) can submit.  columns are
\* the columns the query reads, nested says whether it holds a nested SELECT.
\* grouped says whether it has a GROUP BY and no ORDER BY.
QueryTeams == [sql |-> "SELECT team FROM self", columns |-> {"team"}, nested |-> FALSE,
               grouped |-> FALSE]
QueryNested == [sql |-> "SELECT team, runs FROM (SELECT team, runs FROM self) AS t",
                columns |-> {"team", "runs"}, nested |-> TRUE, grouped |-> FALSE]
Queries == {QueryTeams, QueryNested}
\* a query that names a column in another letter case
QueryCase == [sql |-> "SELECT Team FROM self", columns |-> {"Team"}, nested |-> FALSE,
              grouped |-> FALSE]
\* a query that aggregates per group and does not order its result
QueryGroup == [sql |-> "SELECT team, SUM(runs) AS total FROM self GROUP BY team",
               columns |-> {"team", "runs"}, nested |-> FALSE, grouped |-> TRUE]

SchemaColumns(items) == {items[i].name : i \in 1..Len(items)}

\* pl.concat(dfs): the records of the files one after the other
RECURSIVE ConcatRows(_)
ConcatRows(file_locations) ==
    IF file_locations = << >> THEN << >>
    ELSE FileRows(Head(file_locations)) \o ConcatRows(Tail(file_locations))

\* a variant of read_file_list that concatenates whatever the files hold and
\* keeps the columns of the first file
read_file_list_relaxed(files, file_locations, file_type) ==
    IF file_type = "csv"
    THEN IF file_locations = << >> THEN Raise(ErrEngine)
         ELSE IF \E i \in 1..Len(file_locations) : file_locations[i] \notin files
              THEN Raise(ErrTool)
              ELSE Ok([columns |-> FileSchema(file_locations[1]),
                       rows |-> ConcatRows(file_locations)])
    ELSE IF file_type = "parquet"
         THEN Raise(ErrTool)
         ELSE Raise(ErrUnsupported)

\* read_file_list(file_locations, file_type): the frames are scanned lazily
\* and concatenated; the engine raises when there is nothing to concatenate,
\* when a file cannot be read and when the frames differ in their columns
read_file_list(files, file_locations, file_type) ==
    IF file_type = "csv"
    THEN IF file_locations = << >> THEN Raise(ErrEngine)
         ELSE IF \E i \in 1..Len(file_locations) : file_locations[i] \notin files
              THEN Raise(ErrTool)
              ELSE IF \E i \in 1..Len(file_locations) :
                         FileSchema(file_locations[i]) # FileSchema(file_locations[1])
                   THEN Raise(ErrEngine)
                   ELSE Ok([columns |-> FileSchema(file_locations[1]),
                            rows |-> ConcatRows(file_locations)])
    ELSE IF file_type = "parquet"
         THEN Raise(ErrTool)
         ELSE Raise(ErrUnsupported)

\* op_df.to_dicts(): the records with the columns the query selects
to_dicts(rows, columns) ==
    [i \in 1..Len(rows) |-> [c \in columns |-> rows[i][c]]]

\* SUM(runs) over the records of one team
RECURSIVE SumRuns(_, _)
SumRuns(rows, team) ==
    IF rows = << >> THEN 0
    ELSE (IF Head(rows).team = team THEN Head(rows).runs ELSE 0)
             + SumRuns(Tail(rows), team)

\* the teams of the records, each once, in the order of their first record
RECURSIVE Groups(_)
Groups(rows) ==
    IF rows = << >> THEN << >>
    ELSE LET rest == Groups(SubSeq(rows, 1, Len(rows) - 1))
             team == rows[Len(rows)].team
         IN IF \E i \in 1..Len(rest) : rest[i] = team THEN rest ELSE Append(rest, team)

\* GROUP BY team with SUM(runs): one record per team
group_by(rows) ==
    [i \in 1..Len(Groups(rows)) |->
        [team |-> Groups(rows)[i], total |-> SumRuns(rows, Groups(rows)[i])]]

\* the orders in which the records of a sequence can come
Orders(rows) ==
    {[i \in 1..Len(rows) |-> rows[p[i]]] :
        p \in {q \in [1..Len(rows) -> 1..Len(rows)] :
                  \A i, j \in 1..Len(rows) : i # j => q[i] # q[j]}}

\* a variant of execute_polars_sql that runs only queries that read every
\* column of the frame
execute_polars_sql_all_columns(files, file_locations, query, file_type) ==
    LET df == read_file_list(files, file_locations, file_type)
    IN IF ~df.ok THEN df
       ELSE IF query.columns # SchemaColumns(df.value.columns)
            THEN Raise(ErrEngine)
            ELSE Ok(to_dicts(df.value.rows, query.columns))

\* execute_polars_sql(file_locations, query, file_type): df.sql(query) on the
\* files read; the engine raises on a column the frame does not have
execute_polars_sql(files, file_locations, query, file_type) ==
    LET df == read_file_list(files, file_locations, file_type)
    IN IF ~df.ok THEN df
       ELSE IF ~(query.columns \subseteq SchemaColumns(df.value.columns))
            THEN Raise(ErrEngine)
            ELSE IF query.grouped
                 THEN Ok(group_by(df.value.rows))
                 ELSE Ok(to_dicts(df.value.rows, query.columns))

\* what df.sql(query).to_dicts() can give: the engine does not fix the order
\* of the groups of a GROUP BY without ORDER BY
execute_polars_sql_outcomes(files, file_locations, query, file_type) ==
    LET one == execute_polars_sql(files, file_locations, query, file_type)
    IN IF one.ok /\ query.grouped
       THEN {Ok(rows) : rows \in Orders(one.value)}
       ELSE {one}

\* df.sql(query) is reached exactly when read_file_list returns a frame
sql_reached(files, file_locations, file_type) ==
    read_file_list(files, file_locations, file_type).ok

\* ------------------------------------------------------------------------
\* Dictionaries (insertion ordered, as Python's), kept as sequences of pairs
\* ------------------------------------------------------------------------
EmptyDict == << >>

DictKeys(d) == {d[i][1] : i \in 1..Len(d)}

DictSet(d, k, v) ==
    IF k \in DictKeys(d)
    THEN [i \in 1..Len(d) |-> IF d[i][1] = k THEN <<k, v>> ELSE d[i]]
    ELSE Append(d, <<k, v>>)

\* the loop of cache_schema over the first n items
RECURSIVE FillSchema(_, _, _)
FillSchema(d, items, n) ==
    IF n = 0 THEN d
    ELSE DictSet(FillSchema(d, items, n - 1), items[n].name, items[n].dtype)

\* ------------------------------------------------------------------------
\* The language model's possible outputs
\* ------------------------------------------------------------------------
ReplyPlain == <<"M","I"," ","l","e","a","d","s">>
ReplyEnd == <<"M","I"," ","l","e","a","d","s","\n","E","N","D"," ">>
ReplyStop == <<"D","o","n","e">>
\* an answer with a Markdown table: header line, separator line and n rows
RECURSIVE TableRows(_)
TableRows(n) == IF n = 0 THEN << >> ELSE <<"|","M","I","|","\n">> \o TableRows(n - 1)
ReplyTable == <<"|","t","e","a","m","|","\n">> \o <<"|","-","|","\n">>
                  \o TableRows(MaxRows) \o <<"E","N","D"," ">>
Replies == {EMPTY, ReplyPlain, ReplyEnd, ReplyStop, NO_FILE_MESSAGE, ReplyTable}

ToolCalls ==
    {[tool |-> "get_files_list"]}
    \cup {[tool |-> "get_schema", file_location |-> f] : f \in Files}
    \cup {[tool |-> "execute_polars_sql", file_locations |-> <<f>>, query |-> q] :
            f \in Files, q \in Queries}

\* the tool_calls of one AI message: the tool node runs them side by side
\* and gathers their answers
NoCall == {}
ToolCallSets ==
    {{call} : call \in ToolCalls}
    \cup {{[tool |-> "get_schema", file_location |-> f],
            [tool |-> "execute_polars_sql", file_locations |-> <<f>>, query |-> QueryTeams]} :
            f \in Files}

\* ------------------------------------------------------------------------
\* State
\* ------------------------------------------------------------------------
VARIABLES
    disk,              \* the file the server's glob finds (EMPTY: none)
    pc,                \* per agent: where its run is
    cached_file_path,  \* AgentOptimizer._cached_file_path
    cached_schema,     \* AgentOptimizer._cached_schema
    msg_count,         \* len(messages) of thread "1" in the agent's MemorySaver
    last_content,      \* content of the last AI message of that thread
    steps,             \* graph steps of the current ainvoke
    model_calls,       \* calls of the language model in the current ainvoke
    tool_calls,        \* tool invocations of the current ainvoke
    pending,           \* the tool calls the language model asked for
    inflight,          \* remote tool calls awaited by the agent
    response,          \* what the last run returned
    runs,              \* runs started on the agent object
    kind,              \* which agent the object is: "csv", "dashboard" or "none"
    step_limit,        \* the step limit the graph library enforces
    csv_path,          \* DashboardConfig.csv_path
    d_messages,        \* state["messages"][-1].content of the dashboard pipeline
    results,           \* the results list of SQLExecutor.execute_metrics
    schema_list,       \* what get_schema answered to node_schema in this run
    request,           \* the tool call the server is handling
    reply,             \* what the server answered to it
    last_reply,        \* what the server answered to the same call before
    environ,           \* the settings os.environ lacks
    messages,          \* st.session_state.messages
    csv_uploaded,      \* st.session_state.csv_uploaded
    file_info,         \* st.session_state.file_info
    s3,                \* the keys in the bucket
    exchanges,         \* chat inputs the user has sent in this session
    token_cache,       \* st.session_state.token_cache
    now,               \* time.time()
    returned_token,    \* what the last call of get_or_refresh_token gave
    state_messages,    \* state.messages as the pre-model hook gets it
    llm_input_messages \* what the pre-model hook gives to the language model

vars == <<disk, pc, cached_file_path, cached_schema, msg_count, last_content,
          steps, model_calls, tool_calls, pending, inflight, response, runs, kind, step_limit, request, reply, last_reply, environ,
          messages, csv_uploaded, file_info, s3, exchanges, token_cache, now,
          returned_token, state_messages, llm_input_messages,
          csv_path, d_messages, results, schema_list>>

\* the state of the user interface (src/streamlit_ui_csv/app.py)
ui_vars == <<messages, csv_uploaded, file_info, s3, exchanges, token_cache, now,
             returned_token>>

\* the input and the output of the pre-model hook
hook_vars == <<state_messages, llm_input_messages>>

\* the fields of a dashboard agent, which the CSV agent's steps leave alone
dash_vars == <<csv_path, d_messages, results, schema_list>>
\* the fields of a CSV agent, which the dashboard agent's steps leave alone
csv_vars == <<cached_file_path, cached_schema, msg_count, last_content, steps,
              model_calls, tool_calls, pending>>

NoResponse == <<"-">>
\* the settings CSVAnalysisConfig / DashboardConfig read from the environment
\* without a default
Settings == {"GROQ_API_KEY", "AGENT_ARN", "REGION", "DISCOVERY_URL", "CLIENT_ID",
             "CLIENT_SECRET"}
\* the settings get_bearer_token sends to the identity provider
AuthSettings == {"DISCOVERY_URL", "CLIENT_ID", "CLIENT_SECRET"}
\* what the environment of the process lacks: nothing, or one setting
MissingSettings == {{}} \cup {{k} : k \in Settings}

NoRequest == [tool |-> "none"]
\* the pre-model hook has not returned
NoInput == [returned |-> FALSE, llm_input_messages |-> << >>]
\* file_info = {}
NoFileInfo == [name |-> EMPTY, s3_key |-> EMPTY]
\* the two agents the interface has tokens for
TaskTypes == {"csv", "dashboard"}
\* access_token missing in the token endpoint's answer: .get gives None
None == [task |-> "none", issued |-> 0]
\* no entry under the cache key
NoEntry == [present |-> FALSE, token |-> None, timestamp |-> 0]
\* get_or_refresh_token has not been called yet
NoReturn == [task |-> "none", token |-> None, raised |-> FALSE, at |-> 0]
NoReply == [result |-> Raise(EMPTY), sql_ran |-> FALSE]

\* contents of the dashboard pipeline's messages: a text that is no JSON, the
\* JSON text of a value, or a list
NoJson == [key_metrics |-> << >>, dashboard_components |-> << >>]
Text(t) == [kind |-> "text", text |-> t, json |-> NoJson, list |-> << >>]
json_dumps(v) == [kind |-> "json", text |-> EMPTY, json |-> v, list |-> << >>]
ListContent(l) == [kind |-> "list", text |-> EMPTY, json |-> NoJson, list |-> l]
NoMessage == Text(EMPTY)

\* node_schema has no answer of get_schema (yet, or the tool raised)
NoSchema == [ok |-> FALSE, value |-> << >>]

\* json.loads(content)
json_loads(content) ==
    IF content.kind = "json" THEN Ok(content.json) ELSE Raise(NoJson)

\* a variant of NewAgent in which the cache lives outside the agent object
\* and outlasts it (only the checkpointer is new)
NewAgent_shared_cache(a) ==
    /\ msg_count' = [msg_count EXCEPT ![a] = 0]
    /\ last_content' = [last_content EXCEPT ![a] = EMPTY]
    /\ UNCHANGED <<cached_file_path, cached_schema>>

\* AgentOptimizer.__init__ / MemorySaver(): the fields of a new agent object
NewAgent(a) ==
    /\ cached_file_path' = [cached_file_path EXCEPT ![a] = EMPTY]
    /\ cached_schema' = [cached_schema EXCEPT ![a] = EmptyDict]
    /\ msg_count' = [msg_count EXCEPT ![a] = 0]
    /\ last_content' = [last_content EXCEPT ![a] = EMPTY]

\* DashboardConfig.__init__: the fields of a new dashboard agent object
NewDashboardAgent(a) ==
    /\ csv_path' = [csv_path EXCEPT ![a] = EMPTY]

\* the slot's previous object is gone: the fields of the other kind of agent
\* are blank
DropCsvAgent(a) ==
    /\ cached_file_path' = [cached_file_path EXCEPT ![a] = EMPTY]
    /\ cached_schema' = [cached_schema EXCEPT ![a] = EmptyDict]
    /\ msg_count' = [msg_count EXCEPT ![a] = 0]
    /\ last_content' = [last_content EXCEPT ![a] = EMPTY]
    /\ steps' = [steps EXCEPT ![a] = 0]
    /\ model_calls' = [model_calls EXCEPT ![a] = 0]
    /\ tool_calls' = [tool_calls EXCEPT ![a] = 0]

DropDashboardAgent(a) ==
    /\ csv_path' = [csv_path EXCEPT ![a] = EMPTY]
    /\ d_messages' = [d_messages EXCEPT ![a] = NoMessage]
    /\ results' = [results EXCEPT ![a] = << >>]
    /\ schema_list' = [schema_list EXCEPT ![a] = NoSchema]

InitFields ==
    /\ disk \in Files \cup {EMPTY}
    /\ cached_file_path = [a \in Agents |-> EMPTY]
    /\ cached_schema = [a \in Agents |-> EmptyDict]
    /\ msg_count = [a \in Agents |-> 0]
    /\ last_content = [a \in Agents |-> EMPTY]
    /\ steps = [a \in Agents |-> 0]
    /\ model_calls = [a \in Agents |-> 0]
    /\ tool_calls = [a \in Agents |-> 0]
    /\ pending = [a \in Agents |-> NoCall]
    /\ inflight = [a \in Agents |-> {}]
    /\ response = [a \in Agents |-> NoResponse]
    /\ runs = [a \in Agents |-> 0]
    /\ kind = [a \in Agents |-> "none"]
    /\ csv_path = [a \in Agents |-> EMPTY]
    /\ d_messages = [a \in Agents |-> NoMessage]
    /\ results = [a \in Agents |-> << >>]
    /\ schema_list = [a \in Agents |-> NoSchema]
    /\ request = NoRequest
    /\ reply = NoReply
    /\ last_reply = NoReply
    /\ environ \in MissingSettings
    /\ messages = << >>
    /\ csv_uploaded = FALSE
    /\ file_info = NoFileInfo
    /\ s3 = {}
    /\ exchanges = 0
    /\ token_cache = [t \in TaskTypes |-> NoEntry]
    /\ now = 0
    /\ returned_token = NoReturn
    /\ state_messages = << >>
    /\ llm_input_messages = NoInput

\* one agent slot in use: every agent is created, run (up to MaxRuns times)
\* and replaced in slot 1
Init ==
    /\ InitFields
    /\ pc = [a \in Agents |-> IF a = 1 THEN "idle" ELSE "absent"]
    /\ step_limit = GraphStepLimit

\* both agent slots in use: two invocations can be under way at once
InitSessions ==
    /\ InitFields
    /\ pc = [a \in Agents |-> "idle"]
    /\ step_limit = SessionStepLimit

\* a run ends with the response r
Finish(a, r) ==
    /\ pc' = [pc EXCEPT ![a] = "idle"]
    /\ response' = [response EXCEPT ![a] = r]
    /\ pending' = [pending EXCEPT ![a] = NoCall]
    /\ inflight' = [inflight EXCEPT ![a] = {}]

\* ------------------------------------------------------------------------
\* The CSV analysis agent (src/csv_agent/csv_agent.py)
\* ------------------------------------------------------------------------
Prompts == {EMPTY, <<"t","o","p","?">>}

\* the payloads of an invocation: with a 'prompt', or without the key
Payloads == {[prompt |-> p] : p \in Prompts} \cup {[input |-> EMPTY]}

\* an exception that leaves the entrypoint: the caller gets no return value
\* of the entrypoint but the exception
Unhandled(e) == <<"Traceback">> \o e
IsUnhandled(r) == Len(r) > 0 /\ r[1] = "Traceback"

\* the entrypoint raises: no agent is built, no run starts
RaiseFromEntrypoint(a, e) ==
    /\ response' = [response EXCEPT ![a] = Unhandled(e)]
    /\ UNCHANGED <<disk, pc, cached_file_path, cached_schema, msg_count,
                   last_content, steps, model_calls, tool_calls, pending, inflight,
                   runs, kind, step_limit, request, reply, last_reply, environ, ui_vars, hook_vars, dash_vars>>

\* CSVAnalysisAgent.run(message), up to the first await
StartRun(a) ==
    /\ pc' = [pc EXCEPT ![a] = "auth"]
    /\ response' = [response EXCEPT ![a] = NoResponse]
    /\ steps' = [steps EXCEPT ![a] = 0]
    /\ model_calls' = [model_calls EXCEPT ![a] = 0]
    /\ tool_calls' = [tool_calls EXCEPT ![a] = 0]
    /\ UNCHANGED <<disk, pending, inflight, step_limit, request, reply, last_reply, environ, ui_vars, hook_vars>>

\* agent_invocation(payload, context): a new CSVAnalysisAgent for every call
agent_invocation(a) ==
    /\ pc[a] = "idle"
    /\ \E payload \in Payloads :
         IF "prompt" \notin DOMAIN payload
         THEN RaiseFromEntrypoint(a, ErrKey)
         ELSE IF payload.prompt = EMPTY
         THEN /\ response' = [response EXCEPT ![a] = NO_PROMPT]
              /\ UNCHANGED <<disk, pc, cached_file_path, cached_schema, msg_count,
                             last_content, steps, model_calls, tool_calls, pending, inflight, runs, kind, step_limit, request, reply, last_reply, environ, ui_vars, hook_vars,
                   dash_vars>>
         ELSE IF "GROQ_API_KEY" \in environ
         THEN RaiseFromEntrypoint(a, ErrConfig)
         ELSE IF "AGENT_ARN" \in environ
         THEN RaiseFromEntrypoint(a, ErrArn)
         ELSE /\ NewAgent(a)
              /\ DropDashboardAgent(a)
              /\ runs' = [runs EXCEPT ![a] = 1]
              /\ kind' = [kind EXCEPT ![a] = "csv"]
              /\ StartRun(a)

\* agent.run(message) once more on the same agent object
run(a) ==
    /\ pc[a] = "idle"
    /\ kind[a] = "csv"
    /\ runs[a] >= 1
    /\ runs[a] < MaxRuns
    /\ runs' = [runs EXCEPT ![a] = @ + 1]
    /\ StartRun(a)
    /\ UNCHANGED <<cached_file_path, cached_schema, msg_count, last_content, kind,
                   dash_vars>>

\* AuthenticationManager.get_bearer_token(); a failure is caught by the outer
\* except of run
get_bearer_token(a) ==
    /\ pc[a] = "auth"
    /\ \/ /\ environ \cap AuthSettings = {}
          /\ pc' = [pc EXCEPT ![a] = "connect"]
          /\ UNCHANGED <<response, pending, inflight>>
       \/ Finish(a, CONNECTION_ERROR_PREFIX \o ErrAuth)
    /\ UNCHANGED <<disk, cached_file_path, cached_schema, msg_count, last_content,
                   steps, model_calls, tool_calls, runs, kind, step_limit, request, reply, last_reply, environ, ui_vars, hook_vars,
                   dash_vars>>

\* streamablehttp_client / ClientSession / session.initialize / load_mcp_tools
mcp_connect(a) ==
    /\ pc[a] = "connect"
    /\ \/ /\ "REGION" \notin environ
          /\ pc' = [pc EXCEPT ![a] = "cache_file_path"]
          /\ UNCHANGED <<response, pending, inflight>>
       \/ Finish(a, CONNECTION_ERROR_PREFIX \o ErrConnect)
       \/ Finish(a, WORKFLOW_ERROR_PREFIX \o ErrConnect)
    /\ UNCHANGED <<disk, cached_file_path, cached_schema, msg_count, last_content,
                   steps, model_calls, tool_calls, runs, kind, step_limit, request, reply, last_reply, environ, ui_vars, hook_vars,
                   dash_vars>>

\* a variant of cache_file_path_call that lists the files on every run
cache_file_path_call_every_run(a) ==
    /\ pc[a] = "cache_file_path"
    /\ inflight' = [inflight EXCEPT ![a] = @ \cup {"get_files_list"}]
    /\ pc' = [pc EXCEPT ![a] = "files_wait"]
    /\ UNCHANGED <<disk, cached_file_path, cached_schema, msg_count, last_content,
                   steps, model_calls, tool_calls, pending, response, runs, kind,
                   step_limit, request, reply, last_reply, environ, ui_vars, hook_vars, dash_vars>>

\* SchemaCache.cache_file_path, up to the await of get_files_list
cache_file_path_call(a) ==
    /\ pc[a] = "cache_file_path"
    /\ IF cached_file_path[a] = EMPTY
       THEN /\ inflight' = [inflight EXCEPT ![a] = @ \cup {"get_files_list"}]
            /\ pc' = [pc EXCEPT ![a] = "files_wait"]
       ELSE /\ pc' = [pc EXCEPT ![a] = "cache_schema"]
            /\ UNCHANGED inflight
    /\ UNCHANGED <<disk, cached_file_path, cached_schema, msg_count, last_content,
                   steps, model_calls, tool_calls, pending, response, runs, kind, step_limit, request, reply, last_reply, environ, ui_vars, hook_vars,
                   dash_vars>>

\* SchemaCache.cache_file_path, from the answer of get_files_list on
cache_file_path_return(a) ==
    /\ pc[a] = "files_wait"
    /\ \/ LET raw_path == get_files_list(disk).value
          IN /\ cached_file_path' = [cached_file_path EXCEPT ![a] = Strip(raw_path)]
             /\ inflight' = [inflight EXCEPT ![a] = @ \ {"get_files_list"}]
             /\ pc' = [pc EXCEPT ![a] = "cache_schema"]
             /\ UNCHANGED <<response, pending>>
       \/ /\ Finish(a, WORKFLOW_ERROR_PREFIX \o ErrTool)
          /\ UNCHANGED cached_file_path
    /\ UNCHANGED <<disk, cached_schema, msg_count, last_content, steps, model_calls, tool_calls, runs, kind, step_limit, request, reply, last_reply, environ, ui_vars, hook_vars,
                   dash_vars>>

\* a variant of cache_schema_call that sends get_schema and goes on without
\* awaiting the answer
cache_schema_call_not_awaited(a) ==
    /\ pc[a] = "cache_schema"
    /\ IF cached_file_path[a] = EMPTY
       THEN /\ cached_schema' = [cached_schema EXCEPT ![a] = EmptyDict]
            /\ UNCHANGED inflight
       ELSE IF cached_schema[a] = EmptyDict
            THEN /\ inflight' = [inflight EXCEPT ![a] = @ \cup {"get_schema"}]
                 /\ UNCHANGED cached_schema
            ELSE UNCHANGED <<cached_schema, inflight>>
    /\ pc' = [pc EXCEPT ![a] = "execute"]
    /\ UNCHANGED <<disk, cached_file_path, msg_count, last_content, steps,
                   model_calls, tool_calls, pending, response, runs, kind,
                   step_limit, request, reply, last_reply, environ, ui_vars, hook_vars, dash_vars>>

\* SchemaCache.cache_schema, up to the await of get_schema
cache_schema_call(a) ==
    /\ pc[a] = "cache_schema"
    /\ IF cached_file_path[a] = EMPTY
       THEN /\ cached_schema' = [cached_schema EXCEPT ![a] = EmptyDict]
            /\ pc' = [pc EXCEPT ![a] = "execute"]
            /\ UNCHANGED inflight
       ELSE IF cached_schema[a] = EmptyDict
            THEN /\ inflight' = [inflight EXCEPT ![a] = @ \cup {"get_schema"}]
                 /\ pc' = [pc EXCEPT ![a] = "schema_wait"]
                 /\ UNCHANGED cached_schema
            ELSE /\ pc' = [pc EXCEPT ![a] = "execute"]
                 /\ UNCHANGED <<cached_schema, inflight>>
    /\ UNCHANGED <<disk, cached_file_path, msg_count, last_content, steps, model_calls, tool_calls,
                   pending, response, runs, kind, step_limit, request, reply, last_reply, environ, ui_vars, hook_vars,
                   dash_vars>>

\* SchemaCache.cache_schema, from the answer of get_schema on: the items are
\* stored one by one; item number bad (0: none) does not parse or lacks a key
cache_schema_return(a) ==
    /\ pc[a] = "schema_wait"
    /\ LET raw_schema == get_schema(FilesOn(disk), cached_file_path[a], "csv")
       IN IF ~raw_schema.ok
          THEN /\ Finish(a, WORKFLOW_ERROR_PREFIX \o ErrTool)
               /\ UNCHANGED cached_schema
          ELSE \E bad \in 0..Len(raw_schema.value) :
                 IF bad = 0
                 THEN /\ cached_schema' = [cached_schema EXCEPT ![a] =
                             FillSchema(@, raw_schema.value, Len(raw_schema.value))]
                      /\ inflight' = [inflight EXCEPT ![a] = @ \ {"get_schema"}]
                      /\ pc' = [pc EXCEPT ![a] = "execute"]
                      /\ UNCHANGED <<response, pending>>
                 ELSE /\ cached_schema' = [cached_schema EXCEPT ![a] =
                             FillSchema(@, raw_schema.value, bad - 1)]
                      /\ Finish(a, WORKFLOW_ERROR_PREFIX \o ErrParse)
    /\ UNCHANGED <<disk, cached_file_path, msg_count, last_content, steps, model_calls, tool_calls, runs, kind, step_limit, request, reply, last_reply, environ, ui_vars, hook_vars,
                   dash_vars>>

\* AgentExecutor.execute: ainvoke starts with the new HumanMessage added to
\* the checkpointed messages of thread "1"
execute(a) ==
    /\ pc[a] = "execute"
    /\ msg_count' = [msg_count EXCEPT ![a] = @ + 1]
    /\ pc' = [pc EXCEPT ![a] = "reason"]
    /\ UNCHANGED <<disk, cached_file_path, cached_schema, last_content, steps,
                   model_calls, tool_calls, pending, inflight, response, runs, kind, step_limit, request, reply, last_reply, environ, ui_vars, hook_vars,
                   dash_vars>>

\* the graph raises GraphRecursionError at the step limit; execute returns
\* the partial-result text
graph_recursion_error(a) ==
    /\ pc[a] \in {"reason", "tools"}
    /\ steps[a] >= step_limit
    /\ Finish(a, PARTIAL_RESULT)
    /\ UNCHANGED <<disk, cached_file_path, cached_schema, msg_count, last_content,
                   steps, model_calls, tool_calls, runs, kind, step_limit, request, reply, last_reply, environ, ui_vars, hook_vars,
                   dash_vars>>

\* node "reason", the model call of the react agent: the language model asks
\* for tools, or answers, or the call fails (except Exception in execute)
reason(a) ==
    /\ pc[a] = "reason"
    /\ steps[a] < step_limit
    /\ \/ \E calls \in ToolCallSets :
            /\ pending' = [pending EXCEPT ![a] = calls]
            /\ msg_count' = [msg_count EXCEPT ![a] = @ + 1]
            /\ steps' = [steps EXCEPT ![a] = @ + 1]
            /\ model_calls' = [model_calls EXCEPT ![a] = @ + 1]
            /\ pc' = [pc EXCEPT ![a] = "tools"]
            /\ UNCHANGED <<last_content, response, inflight>>
       \/ \E content \in Replies :
            /\ last_content' = [last_content EXCEPT ![a] = content]
            /\ msg_count' = [msg_count EXCEPT ![a] = @ + 1]
            /\ steps' = [steps EXCEPT ![a] = @ + 1]
            /\ model_calls' = [model_calls EXCEPT ![a] = @ + 1]
            /\ pc' = [pc EXCEPT ![a] = "router"]
            /\ UNCHANGED <<pending, response, inflight>>
       \/ /\ Finish(a, ERROR_PREFIX \o ErrModel)
          /\ UNCHANGED <<msg_count, last_content, steps, model_calls>>
    /\ UNCHANGED <<disk, cached_file_path, cached_schema, tool_calls, runs, kind,
                   step_limit, request, reply, last_reply, environ, ui_vars, hook_vars, dash_vars>>

\* the tool node of the react agent sends the calls the model asked for
tools_call(a) ==
    /\ pc[a] = "tools"
    /\ steps[a] < step_limit
    /\ inflight' = [inflight EXCEPT ![a] = @ \cup {call.tool : call \in pending[a]}]
    /\ tool_calls' = [tool_calls EXCEPT ![a] = @ + Cardinality(pending[a])]
    /\ pc' = [pc EXCEPT ![a] = "tools_wait"]
    /\ UNCHANGED <<disk, cached_file_path, cached_schema, msg_count, last_content,
                   steps, model_calls, pending, response, runs, kind, step_limit, request, reply, last_reply, environ, ui_vars, hook_vars,
                   dash_vars>>

\* the tools' answers (results or error texts) become ToolMessages and the
\* model is called again
tools_return(a) ==
    /\ pc[a] = "tools_wait"
    /\ inflight' = [inflight EXCEPT ![a] = @ \ {call.tool : call \in pending[a]}]
    /\ pending' = [pending EXCEPT ![a] = NoCall]
    /\ msg_count' = [msg_count EXCEPT ![a] = @ + Cardinality(pending[a])]
    /\ steps' = [steps EXCEPT ![a] = @ + 1]
    /\ pc' = [pc EXCEPT ![a] = "reason"]
    /\ UNCHANGED <<disk, cached_file_path, cached_schema, last_content, model_calls,
                   tool_calls, response, runs, kind, step_limit, request, reply, last_reply, environ, ui_vars, hook_vars, dash_vars>>

\* a variant of router_function that looks for the stop words as written
router_function_case_sensitive(count, content) ==
    IF count = 0 THEN "END"
    ELSE IF content = EMPTY THEN "END"
    ELSE IF \/ EndsWith(Strip(content), <<"E","N","D">>)
            \/ count > ROUTER_MAX_MESSAGES
            \/ Contains(content, <<"f","i","n","a","l"," ","a","n","s","w","e","r">>)
            \/ Contains(content, <<"c","o","m","p","l","e","t","e">>)
            \/ Contains(content, <<"d","o","n","e">>)
            \/ Contains(content, <<"f","i","n","i","s","h","e","d">>)
         THEN "END"
         ELSE "reason"

\* router_function(state) of create_smart_router
router_function(count, content) ==
    IF count = 0 THEN "END"
    ELSE IF content = EMPTY THEN "END"
    ELSE IF \/ EndsWith(Strip(content), <<"E","N","D">>)
            \/ count > ROUTER_MAX_MESSAGES
            \/ Contains(Lower(content), <<"f","i","n","a","l"," ","a","n","s","w","e","r">>)
            \/ Contains(Lower(content), <<"c","o","m","p","l","e","t","e">>)
            \/ Contains(Lower(content), <<"d","o","n","e">>)
            \/ Contains(Lower(content), <<"f","i","n","i","s","h","e","d">>)
         THEN "END"
         ELSE "reason"

\* the conditional edge after "reason"; at END execute returns the content
\* of the last message
router(a) ==
    /\ pc[a] = "router"
    /\ IF router_function(msg_count[a], last_content[a]) = "END"
       THEN Finish(a, last_content[a])
       ELSE /\ pc' = [pc EXCEPT ![a] = "reason"]
            /\ UNCHANGED <<response, pending, inflight>>
    /\ UNCHANGED <<disk, cached_file_path, cached_schema, msg_count, last_content,
                   steps, model_calls, tool_calls, runs, kind, step_limit, request, reply, last_reply, environ, ui_vars, hook_vars,
                   dash_vars>>

\* ------------------------------------------------------------------------
\* The dashboard agent (src/dashboardagent.py)
\* ------------------------------------------------------------------------
PIPELINE_ERROR_PREFIX == <<"E","r","r","o","r"," ","e","x","e","c","u","t","i","n","g"," ","a","n","a","l","y","s","i","s"," ","p","i","p","e","l","i","n","e",":"," ">>
Html == <<"<","h","t","m","l",">">>

\* DashboardConfig.VISUALIZATION_TYPES
VISUALIZATION_TYPES ==
    {"time_series", "bar_chart", "pie_chart", "scatter_plot", "heatmap",
     "table", "gauge", "funnel"}

\* entries of "key_metrics" the language model (or a question that is itself
\* JSON) can hold
MetricTeams == [metric |-> "Teams", description |-> "teams", visualization_type |-> "table",
                sql |-> QueryTeams]
MetricTotals == [metric |-> "Totals", description |-> "total per team",
                 visualization_type |-> "bar_chart", sql |-> QueryNested]
\* an entry with a visualization type that is none of VISUALIZATION_TYPES
MetricShare == [metric |-> "Share", description |-> "share of runs",
                visualization_type |-> "sankey", sql |-> QueryTeams]
MetricSpecs == {MetricTeams, MetricTotals, MetricShare}

RECURSIVE SeqsUpTo(_, _)
SeqsUpTo(S, n) ==
    IF n = 0 THEN {<< >>}
    ELSE SeqsUpTo(S, n - 1) \cup
         {Append(q, x) : q \in {r \in SeqsUpTo(S, n - 1) : Len(r) = n - 1}, x \in S}

\* the dictionary analyze_schema returns
AnalysisSpecs ==
    {[key_metrics |-> m, dashboard_components |-> <<"charts">>] :
        m \in {q \in SeqsUpTo(MetricSpecs, MaxMetrics) :
                  \A i, j \in 1..Len(q) : i # j => q[i] # q[j]}}

\* payload['prompt']: a plain question, or a text that is itself JSON
Questions ==
    {Text(<<"t","o","p","?">>),
     json_dumps([key_metrics |-> <<MetricTeams>>, dashboard_components |-> <<"charts">>])}

\* the payloads of an invocation of the dashboard agent
DashboardPayloads == {[prompt |-> q] : q \in Questions} \cup {[input |-> EMPTY]}

\* DashboardAgent.run_stream(messages), up to the first await
StartRunStream(a, question) ==
    /\ pc' = [pc EXCEPT ![a] = "run_stream"]
    /\ response' = [response EXCEPT ![a] = NoResponse]
    /\ d_messages' = [d_messages EXCEPT ![a] = question]
    /\ results' = [results EXCEPT ![a] = << >>]
    /\ schema_list' = [schema_list EXCEPT ![a] = NoSchema]
    /\ UNCHANGED <<disk, inflight, step_limit, request, reply, last_reply, environ, ui_vars, hook_vars, pending>>

\* agent_invocation(payload, context) of the dashboard agent: a new
\* DashboardAgent (DashboardConfig: csv_path = None) for every call
dashboard_agent_invocation(a) ==
    /\ pc[a] = "idle"
    /\ \E payload \in DashboardPayloads :
         IF "prompt" \notin DOMAIN payload
         THEN RaiseFromEntrypoint(a, ErrKey)
         ELSE IF "GROQ_API_KEY" \in environ
         THEN RaiseFromEntrypoint(a, ErrConfig)
         ELSE IF "AGENT_ARN" \in environ
         THEN RaiseFromEntrypoint(a, ErrArn)
         ELSE /\ NewDashboardAgent(a)
              /\ DropCsvAgent(a)
              /\ runs' = [runs EXCEPT ![a] = 1]
              /\ kind' = [kind EXCEPT ![a] = "dashboard"]
              /\ StartRunStream(a, payload.prompt)

\* agent.run_stream(question) once more on the same agent object
run_stream(a) ==
    /\ pc[a] = "idle"
    /\ kind[a] = "dashboard"
    /\ runs[a] >= 1
    /\ runs[a] < MaxRuns
    /\ runs' = [runs EXCEPT ![a] = @ + 1]
    /\ \E question \in Questions : StartRunStream(a, question)
    /\ UNCHANGED <<csv_path, kind, csv_vars>>

\* an exception leaves run_stream and is caught in agent_invocation
PipelineFails(a, e) == Finish(a, PIPELINE_ERROR_PREFIX \o e)

\* get_bearer_token, streamablehttp_client, ClientSession, initialize,
\* load_mcp_tools of run_stream
run_stream_connect(a) ==
    /\ pc[a] = "run_stream"
    /\ \/ /\ environ = {}
          /\ pc' = [pc EXCEPT ![a] = "file_cache"]
          /\ UNCHANGED <<response, pending, inflight>>
       \/ PipelineFails(a, ErrAuth)
       \/ PipelineFails(a, ErrConnect)
    /\ UNCHANGED <<disk, cached_file_path, cached_schema, msg_count, last_content,
                   steps, model_calls, tool_calls, runs, kind, step_limit, request, reply, last_reply, environ, ui_vars, hook_vars, dash_vars>>

\* FileCache.cache_file_path, up to the await of get_files_list
file_cache_call(a) ==
    /\ pc[a] = "file_cache"
    /\ IF csv_path[a] = EMPTY
       THEN /\ inflight' = [inflight EXCEPT ![a] = @ \cup {"get_files_list"}]
            /\ pc' = [pc EXCEPT ![a] = "file_cache_wait"]
       ELSE /\ pc' = [pc EXCEPT ![a] = "node_schema"]
            /\ UNCHANGED inflight
    /\ UNCHANGED <<disk, response, runs, kind, step_limit, request, reply, last_reply, environ, ui_vars, hook_vars, csv_vars, dash_vars>>

\* FileCache.cache_file_path, from the answer of get_files_list on; then the
\* pipeline is built and invoked
file_cache_return(a) ==
    /\ pc[a] = "file_cache_wait"
    /\ \/ LET raw_path == get_files_list(disk).value
          IN /\ csv_path' = [csv_path EXCEPT ![a] = Strip(raw_path)]
             /\ inflight' = [inflight EXCEPT ![a] = @ \ {"get_files_list"}]
             /\ pc' = [pc EXCEPT ![a] = "node_schema"]
             /\ UNCHANGED <<response, pending>>
       \/ /\ PipelineFails(a, ErrTool)
          /\ UNCHANGED csv_path
    /\ UNCHANGED <<disk, cached_file_path, cached_schema, msg_count, last_content,
                   steps, model_calls, tool_calls, runs, kind, step_limit, request, reply, last_reply, environ, ui_vars, hook_vars, d_messages, results, schema_list>>

\* PipelineNodes.node_schema, up to the await of get_schema
node_schema_call(a) ==
    /\ pc[a] = "node_schema"
    /\ inflight' = [inflight EXCEPT ![a] = @ \cup {"get_schema"}]
    /\ pc' = [pc EXCEPT ![a] = "node_schema_wait"]
    /\ UNCHANGED <<disk, response, runs, kind, step_limit, request, reply, last_reply, environ, ui_vars, hook_vars, csv_vars, dash_vars>>

\* PipelineNodes.node_schema, from the answer of get_schema on.  A tool error
\* or an empty schema is caught inside the node, which then returns the keys
\* "error" and "details"; the pipeline state has no such keys, its messages
\* stay as they are, and the edge to execute_sql is taken all the same.
node_schema_return(a) ==
    /\ pc[a] = "node_schema_wait"
    /\ inflight' = [inflight EXCEPT ![a] = @ \ {"get_schema"}]
    /\ LET schema_raw == get_schema(FilesOn(disk), csv_path[a], "csv")
       IN /\ schema_list' = [schema_list EXCEPT ![a] =
                 IF schema_raw.ok THEN schema_raw ELSE NoSchema]
          /\ IF schema_raw.ok /\ schema_raw.value # << >>
             THEN pc' = [pc EXCEPT ![a] = "analyze_schema"]
             ELSE pc' = [pc EXCEPT ![a] = "node_execute_sql"]
    /\ UNCHANGED <<disk, response, runs, kind, step_limit, request, reply, last_reply, environ, ui_vars, hook_vars, csv_vars, csv_path,
                   d_messages, results>>

\* SchemaAnalyzer.analyze_schema inside node_schema: the language model
\* returns a specification, or nothing usable (empty content, no JSON, a
\* key missing), which node_schema catches like the failures above
analyze_schema(a) ==
    /\ pc[a] = "analyze_schema"
    /\ \/ \E spec \in AnalysisSpecs :
            d_messages' = [d_messages EXCEPT ![a] = json_dumps(spec)]
       \/ UNCHANGED d_messages
    /\ pc' = [pc EXCEPT ![a] = "node_execute_sql"]
    /\ UNCHANGED <<disk, inflight, response, runs, kind, step_limit, request, reply, last_reply, environ, ui_vars, hook_vars, csv_vars,
                   csv_path, results, schema_list>>

\* PipelineNodes.node_execute_sql, up to the call of execute_metrics
node_execute_sql(a) ==
    /\ pc[a] = "node_execute_sql"
    /\ IF json_loads(d_messages[a]).ok
       THEN /\ pc' = [pc EXCEPT ![a] = "execute_metrics"]
            /\ results' = [results EXCEPT ![a] = << >>]
            /\ UNCHANGED <<response, pending, inflight>>
       ELSE /\ PipelineFails(a, ErrParse)
            /\ UNCHANGED results
    /\ UNCHANGED <<disk, cached_file_path, cached_schema, msg_count, last_content,
                   steps, model_calls, tool_calls, runs, kind, step_limit, request, reply, last_reply, environ, ui_vars, hook_vars, csv_path, d_messages,
                   schema_list>>

\* the metrics execute_metrics loops over
key_metrics(a) == json_loads(d_messages[a]).value.key_metrics

\* SQLExecutor.execute_metrics: the next metric's query is sent, or, after
\* the last one, node_execute_sql returns the results as its message
execute_metrics_call(a) ==
    /\ pc[a] = "execute_metrics"
    /\ IF Len(results[a]) < Len(key_metrics(a))
       THEN /\ inflight' = [inflight EXCEPT ![a] = @ \cup {"execute_polars_sql"}]
            /\ pc' = [pc EXCEPT ![a] = "execute_metrics_wait"]
            /\ UNCHANGED d_messages
       ELSE /\ d_messages' = [d_messages EXCEPT ![a] = ListContent(results[a])]
            /\ pc' = [pc EXCEPT ![a] = "node_render_html"]
            /\ UNCHANGED inflight
    /\ UNCHANGED <<disk, response, runs, kind, step_limit, request, reply, last_reply, environ, ui_vars, hook_vars, csv_vars, csv_path, results,
                   schema_list>>

\* the first n elements of a sequence
FirstRows(rows, n) == SubSeq(rows, 1, IF Len(rows) < n THEN Len(rows) ELSE n)

\* a variant of execute_metrics_return that keeps the first ROW_CAP records
execute_metrics_return_capped(a) ==
    /\ pc[a] = "execute_metrics_wait"
    /\ LET metric == key_metrics(a)[Len(results[a]) + 1]
           data == execute_polars_sql(FilesOn(disk), <<csv_path[a]>>, metric.sql, "csv")
       IN IF data.ok
          THEN /\ results' = [results EXCEPT ![a] = Append(@,
                     [metric |-> metric.metric,
                      description |-> metric.description,
                      visualization_type |-> metric.visualization_type,
                      data |-> FirstRows(data.value, ROW_CAP)])]
               /\ inflight' = [inflight EXCEPT ![a] = @ \ {"execute_polars_sql"}]
               /\ pc' = [pc EXCEPT ![a] = "execute_metrics"]
               /\ UNCHANGED <<response, pending>>
          ELSE /\ PipelineFails(a, ErrTool)
               /\ UNCHANGED results
    /\ UNCHANGED <<disk, cached_file_path, cached_schema, msg_count, last_content,
                   steps, model_calls, tool_calls, runs, kind, step_limit, request, reply, last_reply, environ, ui_vars, hook_vars, csv_path, d_messages,
                   schema_list>>

\* a variant of execute_metrics_return that, when a query fails, returns the
\* results it has so far
execute_metrics_return_partial(a) ==
    /\ pc[a] = "execute_metrics_wait"
    /\ LET metric == key_metrics(a)[Len(results[a]) + 1]
           data == execute_polars_sql(FilesOn(disk), <<csv_path[a]>>, metric.sql, "csv")
       IN IF data.ok
          THEN /\ results' = [results EXCEPT ![a] = Append(@,
                     [metric |-> metric.metric,
                      description |-> metric.description,
                      visualization_type |-> metric.visualization_type,
                      data |-> data.value])]
               /\ inflight' = [inflight EXCEPT ![a] = @ \ {"execute_polars_sql"}]
               /\ pc' = [pc EXCEPT ![a] = "execute_metrics"]
               /\ UNCHANGED <<response, pending, d_messages>>
          ELSE /\ d_messages' = [d_messages EXCEPT ![a] = ListContent(results[a])]
               /\ inflight' = [inflight EXCEPT ![a] = @ \ {"execute_polars_sql"}]
               /\ pc' = [pc EXCEPT ![a] = "node_render_html"]
               /\ UNCHANGED <<response, pending, results>>
    /\ UNCHANGED <<disk, cached_file_path, cached_schema, msg_count, last_content,
                   steps, model_calls, tool_calls, runs, kind, step_limit, request, reply, last_reply, environ, ui_vars, hook_vars, csv_path,
                   schema_list>>

\* SQLExecutor.execute_metrics, from the answer of execute_polars_sql on
execute_metrics_return(a) ==
    /\ pc[a] = "execute_metrics_wait"
    /\ LET metric == key_metrics(a)[Len(results[a]) + 1]
           data == execute_polars_sql(FilesOn(disk), <<csv_path[a]>>, metric.sql, "csv")
       IN IF data.ok
          THEN /\ results' = [results EXCEPT ![a] = Append(@,
                     [metric |-> metric.metric,
                      description |-> metric.description,
                      visualization_type |-> metric.visualization_type,
                      data |-> data.value])]
               /\ inflight' = [inflight EXCEPT ![a] = @ \ {"execute_polars_sql"}]
               /\ pc' = [pc EXCEPT ![a] = "execute_metrics"]
               /\ UNCHANGED <<response, pending>>
          ELSE /\ PipelineFails(a, ErrTool)
               /\ UNCHANGED results
    /\ UNCHANGED <<disk, cached_file_path, cached_schema, msg_count, last_content,
                   steps, model_calls, tool_calls, runs, kind, step_limit, request, reply, last_reply, environ, ui_vars, hook_vars, csv_path, d_messages,
                   schema_list>>

\* PipelineNodes.node_render_html and the return of agent_invocation
node_render_html(a) ==
    /\ pc[a] = "node_render_html"
    /\ \/ Finish(a, Html)
       \/ PipelineFails(a, ErrModel)
    /\ UNCHANGED <<disk, cached_file_path, cached_schema, msg_count, last_content,
                   steps, model_calls, tool_calls, runs, kind, step_limit, request, reply, last_reply, environ, ui_vars, hook_vars, dash_vars>>

\* ------------------------------------------------------------------------
\* The files on the server change when the user uploads or removes a file
\* (src/streamlit_ui_csv/app.py)
\* ------------------------------------------------------------------------
upload_to_s3 ==
    /\ disk = EMPTY
    /\ \E f \in Files : disk' = f
    /\ UNCHANGED <<pc, cached_file_path, cached_schema, msg_count, last_content,
                   steps, model_calls, tool_calls, pending, inflight, response, runs, kind, step_limit, request, reply, last_reply, environ, ui_vars, hook_vars,
                   dash_vars>>

delete_from_s3 ==
    /\ disk # EMPTY
    /\ disk' = EMPTY
    /\ UNCHANGED <<pc, cached_file_path, cached_schema, msg_count, last_content,
                   steps, model_calls, tool_calls, pending, inflight, response, runs, kind, step_limit, request, reply, last_reply, environ, ui_vars, hook_vars,
                   dash_vars>>

\* the steps of a run of the CSV agent
CsvStep(a) ==
    \/ get_bearer_token(a)
    \/ mcp_connect(a)
    \/ cache_file_path_call(a)
    \/ cache_file_path_return(a)
    \/ cache_schema_call(a)
    \/ cache_schema_return(a)
    \/ execute(a)
    \/ reason(a)
    \/ tools_call(a)
    \/ tools_return(a)
    \/ graph_recursion_error(a)
    \/ router(a)

\* the steps of a run of the dashboard agent
DashboardStep(a) ==
    \/ run_stream_connect(a)
    \/ file_cache_call(a)
    \/ file_cache_return(a)
    \/ node_schema_call(a)
    \/ node_schema_return(a)
    \/ analyze_schema(a)
    \/ node_execute_sql(a)
    \/ execute_metrics_call(a)
    \/ execute_metrics_return(a)
    \/ node_render_html(a)

Next ==
    \/ upload_to_s3
    \/ delete_from_s3
    \/ \E a \in Agents :
         \/ agent_invocation(a)
         \/ run(a)
         \/ dashboard_agent_invocation(a)
         \/ run_stream(a)
         \/ CsvStep(a)
         \/ DashboardStep(a)

Spec == Init /\ [][Next]_vars

\* the entrypoints as deployed: every invocation builds its own agent and
\* runs it once; the files on the server stay as they are
NextSessions ==
    \E a \in Agents :
       \/ agent_invocation(a)
       \/ dashboard_agent_invocation(a)
       \/ CsvStep(a)
       \/ DashboardStep(a)

SpecSessions == InitSessions /\ [][NextSessions]_vars

\* ------------------------------------------------------------------------
\* The tools of the server on their own, called with any arguments
\* ------------------------------------------------------------------------
FileTypes == {"csv", "parquet", "json", "CSV"}
FileLists == SeqsUpTo(ServerFiles, MaxFileLocations)

\* the tool calls a client can send; files are the files the server holds
Requests ==
    [tool : {"get_schema"}, files : SUBSET ServerFiles,
     file_location : ServerFiles, file_type : FileTypes]
    \cup
    [tool : {"execute_polars_sql"}, files : SUBSET ServerFiles,
     file_locations : FileLists, query : Queries \cup {QueryCase, QueryGroup},
     file_type : FileTypes]

\* what the agents' steps leave alone when the server is called on its own
agent_vars_but_hook ==
    <<disk, pc, cached_file_path, cached_schema, msg_count, last_content,
      steps, model_calls, tool_calls, pending, inflight, response, runs,
      kind, step_limit, csv_path, d_messages, results, schema_list,
      environ, ui_vars>>
agent_vars == <<agent_vars_but_hook, hook_vars>>

\* a client sends a tool call
mcp_call ==
    /\ request = NoRequest
    /\ request' \in Requests
    /\ UNCHANGED <<reply, last_reply, agent_vars>>

\* the client sends the same call once more; the files are as they were
mcp_call_again ==
    /\ reply # NoReply
    /\ last_reply = NoReply
    /\ last_reply' = reply
    /\ reply' = NoReply
    /\ UNCHANGED <<request, agent_vars>>

\* the client has the server's answers
mcp_return ==
    /\ reply # NoReply
    /\ request' = NoRequest
    /\ reply' = NoReply
    /\ last_reply' = NoReply
    /\ UNCHANGED agent_vars

\* the server runs get_schema
mcp_get_schema ==
    /\ request # NoRequest /\ request.tool = "get_schema" /\ reply = NoReply
    /\ reply' = [result |-> get_schema(request.files, request.file_location,
                                         request.file_type),
                  sql_ran |-> FALSE]
    /\ UNCHANGED <<request, last_reply, agent_vars>>

\* a variant of mcp_execute_polars_sql in which the frame of the call before
\* stays in the server and the next result is appended to it
mcp_execute_polars_sql_keeps_frame ==
    /\ request # NoRequest /\ request.tool = "execute_polars_sql" /\ reply = NoReply
    /\ \E result \in execute_polars_sql_outcomes(request.files, request.file_locations,
                                                  request.query, request.file_type) :
          reply' = [result |-> IF result.ok /\ last_reply.result.ok
                               THEN Ok(last_reply.result.value \o result.value)
                               ELSE result,
                    sql_ran |-> sql_reached(request.files, request.file_locations,
                                            request.file_type)]
    /\ UNCHANGED <<request, last_reply, agent_vars>>

\* the server runs execute_polars_sql
mcp_execute_polars_sql ==
    /\ request # NoRequest /\ request.tool = "execute_polars_sql" /\ reply = NoReply
    /\ \E result \in execute_polars_sql_outcomes(request.files, request.file_locations,
                                                  request.query, request.file_type) :
          reply' = [result |-> result,
                    sql_ran |-> sql_reached(request.files, request.file_locations,
                                            request.file_type)]
    /\ UNCHANGED <<request, last_reply, agent_vars>>

NextServer ==
    \/ mcp_call
    \/ mcp_call_again
    \/ mcp_return
    \/ mcp_get_schema
    \/ mcp_execute_polars_sql

\* the server on its own: no agent is running
InitServer == Init /\ disk = EMPTY /\ environ = {}

SpecServer == InitServer /\ [][NextServer]_vars

\* ------------------------------------------------------------------------
\* Properties
\* ------------------------------------------------------------------------
\* the part of a CSV agent's run that follows the two caching stages
LoopPcs == {"execute", "reason", "tools", "tools_wait", "router"}

\* the part of a dashboard run that follows node_schema
AfterSchemaPcs == {"node_execute_sql", "execute_metrics", "execute_metrics_wait",
                   "node_render_html"}

\* no remote call that reads the data is awaited by agent a
NoDataCall(a) == inflight[a] \cap {"get_schema", "execute_polars_sql"} = {}

\* the queries agent a has sent to execute_polars_sql and awaits
InflightQueries(a) ==
    IF kind[a] = "csv" /\ pc[a] = "tools_wait"
    THEN {call.query : call \in {c \in pending[a] : c.tool = "execute_polars_sql"}}
    ELSE IF kind[a] = "dashboard" /\ pc[a] = "execute_metrics_wait"
         THEN {key_metrics(a)[Len(results[a]) + 1].sql}
         ELSE {}

\* the columns of the schema the session holds
SessionColumns(a) ==
    IF kind[a] = "csv" THEN DictKeys(cached_schema[a])
    ELSE SchemaColumns(schema_list[a].value)

\* validate(query, schema) of the Query Validator, for the two rules the
\* queries of the model can break: no nested SELECT, every column in the schema
validate(query, columns) ==
    IF query.nested THEN "IllegalSubquery"
    ELSE IF ~(query.columns \subseteq columns) THEN "UnknownColumn"
    ELSE "Valid"

\* the pre-check states of a session
EmptyOnly(a) ==
    /\ kind[a] = "csv"
    /\ pc[a] \in LoopPcs \cup {"cache_schema"}
    /\ cached_file_path[a] = EMPTY

HasFilesNoSchema(a) ==
    \/ /\ kind[a] = "csv"
       /\ pc[a] \in LoopPcs
       /\ cached_file_path[a] # EMPTY
       /\ cached_schema[a] = EmptyDict
    \/ /\ kind[a] = "dashboard"
       /\ pc[a] \in AfterSchemaPcs
       /\ csv_path[a] # EMPTY
       /\ schema_list[a] = Ok(<< >>)

Ready(a) ==
    \/ /\ kind[a] = "csv"
       /\ cached_file_path[a] # EMPTY
       /\ cached_schema[a] # EmptyDict
    \/ /\ kind[a] = "dashboard"
       /\ csv_path[a] # EMPTY
       /\ schema_list[a].ok
       /\ schema_list[a].value # << >>

\* the run ended because the language model could not be called
ModelFailure(r) == r \in {ERROR_PREFIX \o ErrModel, PIPELINE_ERROR_PREFIX \o ErrModel}

\* C1: in a run of the CSV agent in which get_files_list answered with an
\* empty listing, no later step of the run has get_schema or
\* execute_polars_sql under way, and the run ends with exactly the response
\* "No file is present and there is nothing to analyze." (unless the call of
\* the language model itself fails).
C1_EmptyListingEndsRun ==
    [][\A a \in Agents :
         EmptyOnly(a) =>
            /\ NoDataCall(a)'
            /\ (pc'[a] = "idle" =>
                  response'[a] = NO_FILE_MESSAGE \/ ModelFailure(response'[a]))]_vars

\* C2: every query an agent has sent to execute_polars_sql (the per-metric
\* calls of the dashboard included) is one the validator accepts against the
\* session's schema; a query the validator rejects is never executed.
C2_OnlyValidQueriesRun ==
    \A a \in Agents :
       \A query \in InflightQueries(a) :
          validate(query, SessionColumns(a)) = "Valid"

\* C3: execute_polars_sql is under way only in the pre-check state Ready,
\* that is with a non-empty file path and a non-empty schema obtained for the
\* session, in either agent.
C3_QueryOnlyWhenReady ==
    \A a \in Agents :
       "execute_polars_sql" \in inflight[a] => Ready(a)

\* C4: with a file path cached and an empty set of columns answered by
\* get_schema, no query is executed and the run ends with the response
\* "No file is present and there is nothing to analyze." (unless the call of
\* the language model itself fails).
C4_EmptySchemaEndsRun ==
    [][\A a \in Agents :
         HasFilesNoSchema(a) =>
            /\ "execute_polars_sql" \notin inflight'[a]
            /\ (pc'[a] = "idle" =>
                  response'[a] = NO_FILE_MESSAGE \/ ModelFailure(response'[a]))]_vars

\* C5: for one question the CSV agent makes at most 2 tool invocations and
\* at most recursion_limit (3) calls of the language model.
C5_IterationBudget ==
    \A a \in Agents :
       kind[a] = "csv" =>
          /\ tool_calls[a] <= MAX_TOOL_CALLS
          /\ model_calls[a] <= recursion_limit

\* the budget of one question is used up
CapExceeded(a) ==
    tool_calls[a] > MAX_TOOL_CALLS \/ model_calls[a] > recursion_limit

\* C6: when a run of the CSV agent ends with the iteration cap (2 tool
\* invocations, 3 calls of the language model) exceeded, its response is
\* "Partial result due to recursion limit." (unless the call of the language
\* model itself fails).
C6_CapExceededGivesPartialResult ==
    [][\A a \in Agents :
         (kind[a] = "csv" /\ pc[a] \in LoopPcs /\ pc'[a] = "idle" /\ CapExceeded(a)') =>
            (response'[a] = PARTIAL_RESULT \/ ModelFailure(response'[a]))]_vars

\* the step creates a new agent object in slot a
NewSession(a) == pc[a] = "idle" /\ pc'[a] # "idle" /\ runs'[a] = 1

\* C7 (as stated): once the file path, or the schema, is cached, no call of
\* get_files_list, or of get_schema, is under way again.
C7_NoLookupOnceCached ==
    \A a \in Agents :
       /\ (kind[a] = "csv" /\ cached_file_path[a] # EMPTY) =>
             "get_files_list" \notin inflight[a]
       /\ (kind[a] = "csv" /\ cached_schema[a] # EmptyDict) =>
             "get_schema" \notin inflight[a]
       /\ (kind[a] = "dashboard" /\ csv_path[a] # EMPTY) =>
             "get_files_list" \notin inflight[a]

\* C7 (amended): within one session a populated cache entry (file path or
\* schema of the CSV agent, file path of the dashboard agent) is never
\* written again, in any run on the agent object, and the caching stages
\* call get_files_list / get_schema only while their entry is empty.
C7_CachingStageWritesOnce ==
    [][\A a \in Agents :
         /\ (cached_file_path[a] # EMPTY /\ ~NewSession(a)) =>
               cached_file_path'[a] = cached_file_path[a]
         /\ (cached_schema[a] # EmptyDict /\ ~NewSession(a)) =>
               cached_schema'[a] = cached_schema[a]
         /\ (csv_path[a] # EMPTY /\ ~NewSession(a)) =>
               csv_path'[a] = csv_path[a]
         /\ (pc[a] # "files_wait" /\ pc'[a] = "files_wait") =>
               cached_file_path[a] = EMPTY
         /\ (pc[a] # "schema_wait" /\ pc'[a] = "schema_wait") =>
               cached_schema[a] = EmptyDict
         /\ (pc[a] # "file_cache_wait" /\ pc'[a] = "file_cache_wait") =>
               csv_path[a] = EMPTY]_vars

\* a second run on the same agent object has passed both caching stages
\* with the entries of the first run
C7_Witness ==
    \E a \in Agents :
       /\ kind[a] = "csv"
       /\ runs[a] = 2
       /\ pc[a] = "execute"
       /\ cached_file_path[a] # EMPTY
       /\ cached_schema[a] # EmptyDict

\* the stages of a run, in the order run / run_stream goes through them
Stage(p) ==
    CASE p \in {"auth", "connect", "run_stream"} -> 0
      [] p \in {"cache_file_path", "files_wait", "file_cache", "file_cache_wait"} -> 1
      [] p \in {"cache_schema", "schema_wait", "node_schema", "node_schema_wait",
                "analyze_schema"} -> 2
      [] OTHER -> 3

\* the positions at which a run awaits a remote call
FilesWaitPcs == {"files_wait", "file_cache_wait"}
SchemaWaitPcs == {"schema_wait", "node_schema_wait"}
QueryWaitPcs == {"tools_wait", "execute_metrics_wait"}

\* C8 (as stated): a schema fetch and a query execution of the same request
\* never overlap.
C8_NoOverlap ==
    \A a \in Agents :
       ~({"get_schema", "execute_polars_sql"} \subseteq inflight[a])

\* C8 (amended): in every run, file-path caching comes before schema caching
\* and schema caching before any query execution; the call of a caching stage
\* is awaited alone and to completion, nothing is under way between the
\* steps, and a query is under way only after both caching stages.
C8_StagesInOrder ==
    /\ [](\A a \in Agents :
            /\ pc[a] \in FilesWaitPcs => inflight[a] = {"get_files_list"}
            /\ pc[a] \in SchemaWaitPcs => inflight[a] = {"get_schema"}
            /\ pc[a] \notin FilesWaitPcs \cup SchemaWaitPcs \cup QueryWaitPcs =>
                  inflight[a] = {}
            /\ "execute_polars_sql" \in inflight[a] => Stage(pc[a]) = 3)
    /\ [][\A a \in Agents :
            (pc[a] \notin {"idle", "absent"} /\ pc'[a] # "idle") =>
               Stage(pc'[a]) >= Stage(pc[a])]_vars

\* a query is under way in a repeated run, after both caching stages
C8_Witness ==
    \E a \in Agents :
       /\ runs[a] = 2
       /\ "execute_polars_sql" \in inflight[a]
       /\ Ready(a)

\* C9: whenever a run of the CSV agent goes on with a cached schema, the
\* file the schema was read from is the file the listing holds now (it has
\* not been replaced or removed since).
C9_CachedSchemaIsOfActiveFile ==
    [][\A a \in Agents :
         (pc[a] = "cache_schema" /\ pc'[a] = "execute"
            /\ cached_schema'[a] # EmptyDict) =>
               cached_file_path[a] = disk]_vars

\* the fields of a session: cache and conversation checkpoint
SessionFields(a) ==
    <<cached_file_path[a], cached_schema[a], csv_path[a], msg_count[a],
      last_content[a]>>

\* C10: every invocation starts with an empty cached file path, an empty
\* cached schema and an empty checkpoint, whatever earlier or concurrent
\* sessions hold; a step of one session leaves the cache and the checkpoint
\* of every other session as they are, and a cache entry is only ever filled
\* from the server's answer.
C10_SessionsIsolated ==
    [][\A a \in Agents :
         /\ (pc[a] = "idle" /\ pc'[a] # "idle") =>
               /\ cached_file_path'[a] = EMPTY
               /\ cached_schema'[a] = EmptyDict
               /\ csv_path'[a] = EMPTY
               /\ msg_count'[a] = 0
         /\ SessionFields(a)' # SessionFields(a) =>
               \A b \in Agents \ {a} : SessionFields(b)' = SessionFields(b)
         /\ cached_file_path'[a] \in {cached_file_path[a], EMPTY, Strip(disk)}
         /\ csv_path'[a] \in {csv_path[a], EMPTY, Strip(disk)}]_vars

\* a session starts with an empty cache while another session, under way at
\* the same time, holds a populated cache and checkpoint
C10_Witness ==
    \E a, b \in Agents :
       /\ a # b
       /\ kind[a] = "csv" /\ pc[a] = "auth"
       /\ cached_file_path[a] = EMPTY /\ cached_schema[a] = EmptyDict
       /\ kind[b] = "csv" /\ pc[b] \in LoopPcs
       /\ cached_file_path[b] # EMPTY /\ cached_schema[b] # EmptyDict
       /\ msg_count[b] > 0

\* C11: no invocation of either entrypoint ends in an exception that leaves
\* the entrypoint; whatever the payload and whatever fails, the caller gets a
\* returned response.
C11_NoUnhandledException ==
    \A a \in Agents : ~IsUnhandled(response[a])

\* the schema stage of the dashboard run of agent a has failed: get_schema
\* gave no schema (tool missing, tool error) or an empty one
SchemaStageFailed(a) ==
    /\ kind[a] = "dashboard"
    /\ pc[a] \in AfterSchemaPcs
    /\ (~schema_list[a].ok \/ schema_list[a].value = << >>)

\* C12: once the schema stage of a dashboard run has failed, the later stages
\* send no SQL and render no dashboard (the run ends with an error instead),
\* whatever the question text is.
C12_FailedSchemaStopsPipeline ==
    \A a \in Agents :
        SchemaStageFailed(a) =>
            pc[a] \notin {"execute_metrics_wait", "node_render_html"}

\* the call being handled loads, as CSV, files the server holds whose column
\* sets differ
MismatchedLoad ==
    /\ request # NoRequest
    /\ request.tool = "execute_polars_sql"
    /\ request.file_type = "csv"
    /\ \A i \in 1..Len(request.file_locations) :
           request.file_locations[i] \in request.files
    /\ \E i, j \in 1..Len(request.file_locations) :
           SchemaColumns(FileSchema(request.file_locations[i]))
               # SchemaColumns(FileSchema(request.file_locations[j]))

SupportedFileTypes == {"csv", "parquet"}

\* C14: a call of get_schema or execute_polars_sql with a file type other
\* than csv and parquet fails with the unsupported-file-type error: no schema
\* and no dataset is returned and no query is run, whatever files are named.
C14_OtherFileTypesUnsupported ==
    (request # NoRequest /\ reply # NoReply
        /\ request.file_type \notin SupportedFileTypes) =>
            (reply.result = Raise(ErrUnsupported) /\ ~reply.sql_ran)

C14_Witness ==
    /\ request # NoRequest
    /\ reply # NoReply
    /\ request.tool = "get_schema"
    /\ request.file_type = "json"
    /\ request.file_location \in request.files

\* the call being handled runs a query on one CSV file the server holds
QueryOnFile ==
    /\ request # NoRequest
    /\ request.tool = "execute_polars_sql"
    /\ request.file_type = "csv"
    /\ Len(request.file_locations) = 1
    /\ request.file_locations[1] \in request.files

\* the columns of the file that call names
RequestColumns == SchemaColumns(FileSchema(request.file_locations[1]))

\* C15: a query with a nested SELECT is rejected as an illegal subquery
\* whatever else it contains: the engine is never asked to run it.
C15_NestedQueryRejected ==
    (QueryOnFile /\ reply # NoReply /\ request.query.nested) => ~reply.sql_ran

C17_UnknownColumnRejected ==
    (QueryOnFile /\ reply # NoReply /\ ~request.query.nested
        /\ ~(request.query.columns \subseteq RequestColumns)) => ~reply.sql_ran

\* the records the query of a metric returns on the file of agent a
MetricRecords(a, metric) ==
    execute_polars_sql({csv_path[a]}, <<csv_path[a]>>, metric.sql, "csv").value

\* C18: when execute_metrics returns, its results are one entry per metric
\* of the specification, in the specification's order, each with the name,
\* description and visualization kind of its metric and with all the records
\* its query returned (none of them cut off).
C18_OneResultPerMetric ==
    [][\A a \in Agents :
          (pc[a] = "execute_metrics" /\ pc'[a] = "node_render_html") =>
              LET specs == key_metrics(a)
                  out == d_messages'[a].list
              IN /\ Len(out) = Len(specs)
                 /\ \A i \in 1..Len(specs) :
                       /\ out[i].metric = specs[i].metric
                       /\ out[i].description = specs[i].description
                       /\ out[i].visualization_type = specs[i].visualization_type
                       /\ out[i].data = MetricRecords(a, specs[i])]_vars

C18_Witness ==
    \E a \in Agents :
        /\ pc[a] = "node_render_html"
        /\ Len(d_messages[a].list) = MaxMetrics
        /\ d_messages[a].list[1].metric # d_messages[a].list[2].metric
        /\ Len(d_messages[a].list[1].data) > ROW_CAP

\* the metrics whose queries are being run or whose results are being
\* rendered in the dashboard run of agent a
MetricsInHand(a) ==
    IF pc[a] \in {"execute_metrics", "execute_metrics_wait"}
    THEN {key_metrics(a)[i].visualization_type : i \in 1..Len(key_metrics(a))}
    ELSE IF pc[a] = "node_render_html"
    THEN {d_messages[a].list[i].visualization_type : i \in 1..Len(d_messages[a].list)}
    ELSE {}

\* C19: every metric that reaches SQL execution or rendering has one of the
\* eight enumerated visualization kinds.
C19_OnlyEnumeratedKinds ==
    \A a \in Agents : MetricsInHand(a) \subseteq VISUALIZATION_TYPES

\* the lines of a text that are lines of a Markdown table
TableLines(text) ==
    Cardinality({i \in 1..Len(text) :
                    text[i] = "|" /\ (i = 1 \/ text[i - 1] = "\n")})

\* the rows of the table a text shows, header and separator line not counted
DisplayedRows(text) ==
    IF TableLines(text) >= 2 THEN TableLines(text) - 2 ELSE 0

\* C20: the table in the answer of a chat run has at most ROW_CAP rows,
\* however many records the query returned.
C20_DisplayedTableCapped ==
    \A a \in Agents :
        (kind[a] = "csv" /\ ~IsUnhandled(response[a])) =>
            DisplayedRows(response[a]) <= ROW_CAP

\* C21: a missing setting is detected when the configuration is built: no
\* agent exists when the environment lacks a setting, so none gets as far as
\* asking the identity provider for a token or connecting to the server.
C21_MissingSettingStopsConstruction ==
    \A a \in Agents : kind[a] # "none" => environ = {}

\* the same call of execute_polars_sql has been answered twice, the files
\* being the same both times
AnsweredTwice ==
    /\ request # NoRequest
    /\ request.tool = "execute_polars_sql"
    /\ reply # NoReply
    /\ last_reply # NoReply

\* the records of a result, each with the number of times it occurs
RecordBag(result) ==
    IF result.ok
    THEN [r \in {result.value[i] : i \in 1..Len(result.value)} |->
             Cardinality({i \in 1..Len(result.value) : result.value[i] = r})]
    ELSE << >>

StopWords ==
    {<<"f","i","n","a","l"," ","a","n","s","w","e","r">>,
     <<"c","o","m","p","l","e","t","e">>,
     <<"d","o","n","e">>,
     <<"f","i","n","i","s","h","e","d">>}

\* the text holds one of the stop words, in whatever letter case
SaysStop(content) ==
    \E w \in StopWords : \E i \in 1..Len(content) :
        /\ i + Len(w) - 1 <= Len(content)
        /\ \A k \in 1..Len(w) : LowerChar(content[i + k - 1]) = w[k]

\* the text ends with END, white space after it not counted
EndsWithEND(content) ==
    \E n \in 3..Len(content) :
        /\ content[n - 2] = "E" /\ content[n - 1] = "N" /\ content[n] = "D"
        /\ \A k \in (n + 1)..Len(content) : content[k] \in Whitespace

\* the states in which the router is to end the loop
RouterEnds(a) ==
    \/ msg_count[a] = 0
    \/ last_content[a] = EMPTY
    \/ EndsWithEND(last_content[a])
    \/ msg_count[a] > ROUTER_MAX_MESSAGES
    \/ SaysStop(last_content[a])

\* C23: the router ends the run exactly in the states listed (no message, an
\* empty last message, one that ends with END, more than six messages, a
\* stop word in the last message) and goes back to "reason" in every other
\* state; it changes neither the number of messages nor the last message.
C23_RouterEndsExactlyWhenListed ==
    [][\A a \in Agents :
          (pc[a] = "router" /\ pc'[a] # "router") =>
              /\ pc'[a] = (IF RouterEnds(a) THEN "idle" ELSE "reason")
              /\ msg_count'[a] = msg_count[a]
              /\ last_content'[a] = last_content[a]]_vars

C23_Witness ==
    \E a \in Agents :
        /\ pc[a] = "idle"
        /\ response[a] = ReplyPlain
        /\ msg_count[a] > ROUTER_MAX_MESSAGES

\* C24: when cache_schema fails, whatever the cause, the cached schema is
\* empty afterwards, so that the next run fetches the schema again.
C24_FailedSchemaCachingLeavesNothing ==
    [][\A a \in Agents :
          (pc[a] = "schema_wait" /\ pc'[a] = "idle") =>
              cached_schema'[a] = EmptyDict]_vars

\* ------------------------------------------------------------------------
\* The pre-model hook of the react agent (create_optimized_pre_model_hook)
\* ------------------------------------------------------------------------
MaxMessages == 3

\* ", ".join(parts) and " | ".join(parts): texts are sequences of pieces
RECURSIVE Join(_, _)
Join(sep, parts) ==
    IF parts = << >> THEN << >>
    ELSE IF Len(parts) = 1 THEN parts[1]
    ELSE parts[1] \o <<sep>> \o Join(sep, Tail(parts))

\* self._cached_schema.keys(), in the order of insertion
SchemaKeys(d) == [i \in 1..Len(d) |-> <<d[i][1]>>]

SystemMessage(content) == [type |-> "system", content |-> content]
HumanMessage(content) == [type |-> "human", content |-> content]
AIMessage(content) == [type |-> "ai", content |-> content]

\* a variant of pre_model_hook that puts the context message in front
\* whatever the caches hold
pre_model_hook_always_context(msgs, file_path, schema) ==
    LET context_parts ==
            (IF file_path # EMPTY THEN << <<"Data file: ">> \o file_path >> ELSE << >>) \o
            (IF schema # EmptyDict
             THEN << <<"Columns: ">> \o Join(", ", SchemaKeys(schema)) >> ELSE << >>)
        ctx == Join(" | ", context_parts)
    IN [returned |-> TRUE,
        llm_input_messages |-> <<SystemMessage(<<"CONTEXT: ">> \o ctx)>> \o msgs]

\* pre_model_hook: the messages the language model gets, from state.messages
\* and the two caches of the optimizer
pre_model_hook(msgs, file_path, schema) ==
    LET context_parts ==
            (IF file_path # EMPTY THEN << <<"Data file: ">> \o file_path >> ELSE << >>) \o
            (IF schema # EmptyDict
             THEN << <<"Columns: ">> \o Join(", ", SchemaKeys(schema)) >> ELSE << >>)
        ctx == Join(" | ", context_parts)
    IN IF context_parts # << >>
       THEN [returned |-> TRUE,
             llm_input_messages |-> <<SystemMessage(<<"CONTEXT: ">> \o ctx)>> \o msgs]
       ELSE [returned |-> TRUE, llm_input_messages |-> msgs]

\* the messages a thread can hold: the user's, the model's, and a system
\* message that itself starts like the context message
ThreadMessages ==
    {HumanMessage(<<"w","h","o"," ","l","e","a","d","s">>), AIMessage(ReplyPlain),
     SystemMessage(<<"CONTEXT: ", "old">>)}

\* what the caches of the optimizer can hold when the hook runs
HookPaths == {EMPTY, FileA}
HookSchemas == {FillSchema(EmptyDict, FileSchema(FileA), n) : n \in 0..2}

\* the react agent calls the hook before the call of the language model
pre_model_hook_call(a) ==
    /\ kind[a] = "csv"
    /\ llm_input_messages = NoInput
    /\ llm_input_messages' =
           pre_model_hook(state_messages, cached_file_path[a], cached_schema[a])
    /\ UNCHANGED <<agent_vars_but_hook, request, reply, last_reply, state_messages>>

\* the language model's answer is added to the thread (add_messages)
add_messages(a) ==
    /\ kind[a] = "csv"
    /\ llm_input_messages # NoInput
    /\ Len(state_messages) < MaxMessages
    /\ \E message \in ThreadMessages : state_messages' = Append(state_messages, message)
    /\ llm_input_messages' = NoInput
    /\ UNCHANGED <<agent_vars_but_hook, request, reply, last_reply>>

InitHook ==
    /\ \E file_path \in HookPaths, schema \in HookSchemas :
          /\ cached_file_path = [a \in Agents |-> IF a = 1 THEN file_path ELSE EMPTY]
          /\ cached_schema = [a \in Agents |-> IF a = 1 THEN schema ELSE EmptyDict]
    /\ state_messages \in {q \in SeqsUpTo(ThreadMessages, MaxMessages) : Len(q) <= 1}
    /\ llm_input_messages = NoInput
    /\ kind = [a \in Agents |-> IF a = 1 THEN "csv" ELSE "none"]
    /\ pc = [a \in Agents |-> IF a = 1 THEN "reason" ELSE "absent"]
    /\ step_limit = GraphStepLimit
    /\ disk = EMPTY /\ environ = {}
    /\ msg_count = [a \in Agents |-> 0]
    /\ last_content = [a \in Agents |-> EMPTY]
    /\ steps = [a \in Agents |-> 0]
    /\ model_calls = [a \in Agents |-> 0]
    /\ tool_calls = [a \in Agents |-> 0]
    /\ pending = [a \in Agents |-> NoCall]
    /\ inflight = [a \in Agents |-> {}]
    /\ response = [a \in Agents |-> NoResponse]
    /\ runs = [a \in Agents |-> 1]
    /\ csv_path = [a \in Agents |-> EMPTY]
    /\ d_messages = [a \in Agents |-> NoMessage]
    /\ results = [a \in Agents |-> << >>]
    /\ schema_list = [a \in Agents |-> NoSchema]
    /\ request = NoRequest /\ reply = NoReply /\ last_reply = NoReply
    /\ messages = << >> /\ csv_uploaded = FALSE /\ file_info = NoFileInfo
    /\ s3 = {} /\ exchanges = 0
    /\ token_cache = [t \in TaskTypes |-> NoEntry]
    /\ now = 0 /\ returned_token = NoReturn

NextHook ==
    \/ pre_model_hook_call(1)
    \/ add_messages(1)

SpecHook == InitHook /\ [][NextHook]_vars

\* the context message: a system message whose content starts with CONTEXT
IsContextMessage(message) ==
    /\ message.type = "system"
    /\ message.content # << >>
    /\ message.content[1] = "CONTEXT: "

\* C26: what the pre-model hook returns is the messages of the state, all of
\* them and as they were, behind exactly one context message when the cached
\* file path or the cached schema is not empty, and the messages alone when
\* both are empty; the call of the hook changes neither cache.
C26_HookKeepsMessages ==
    /\ [](llm_input_messages # NoInput =>
            LET out == llm_input_messages.llm_input_messages
            IN IF cached_file_path[1] # EMPTY \/ cached_schema[1] # EmptyDict
               THEN /\ Len(out) = Len(state_messages) + 1
                    /\ IsContextMessage(out[1])
                    /\ Tail(out) = state_messages
               ELSE out = state_messages)
    /\ [][llm_input_messages' # llm_input_messages =>
             /\ cached_file_path' = cached_file_path
             /\ cached_schema' = cached_schema]_vars

C26_Witness ==
    /\ llm_input_messages # NoInput
    /\ cached_file_path[1] = EMPTY
    /\ cached_schema[1] # EmptyDict
    /\ Len(state_messages) = MaxMessages
    /\ Len(llm_input_messages.llm_input_messages) = MaxMessages + 1

\* ------------------------------------------------------------------------
\* The user interface (src/streamlit_ui_csv/app.py)
\* ------------------------------------------------------------------------
MAX_HISTORY == 25
\* the age in seconds from which a cached token is fetched again
TOKEN_TTL == 3300
\* the clock is read in steps of TickSeconds, MaxTicks times
TickSeconds == 1100
MaxTicks == 7
\* chat inputs in one session
MaxExchanges == 14

\* everything but the state of the user interface
backend_vars == <<disk, pc, cached_file_path, cached_schema, msg_count, last_content,
                  steps, model_calls, tool_calls, pending, inflight, response, runs,
                  kind, step_limit, csv_path, d_messages, results, schema_list,
                  environ, request, reply, last_reply, hook_vars>>

\* time passes
tick ==
    /\ now < MaxTicks * TickSeconds
    /\ now' = now + TickSeconds
    /\ UNCHANGED <<backend_vars, messages, csv_uploaded, file_info, s3, exchanges,
                   token_cache, returned_token>>

\* get_or_refresh_token: the entry of the cache when it is younger than
\* TOKEN_TTL; otherwise the token endpoint is asked, and what its answer has
\* under access_token is stored with the time and returned. The endpoint
\* issues a token, or answers with JSON without access_token, or the request
\* or the decoding of the answer raises
get_or_refresh_token(task_type) ==
    LET token_data == token_cache[task_type]
    IN IF token_data.present /\ now - token_data.timestamp < TOKEN_TTL
       THEN /\ returned_token' = [task |-> task_type, token |-> token_data.token,
                                  raised |-> FALSE, at |-> now]
            /\ UNCHANGED token_cache
       ELSE \/ \E token \in {[task |-> task_type, issued |-> now], None} :
                 /\ token_cache' = [token_cache EXCEPT ![task_type] =
                        [present |-> TRUE, token |-> token, timestamp |-> now]]
                 /\ returned_token' = [task |-> task_type, token |-> token,
                                       raised |-> FALSE, at |-> now]
            \/ /\ returned_token' = [task |-> task_type, token |-> None,
                                      raised |-> TRUE, at |-> now]
               /\ UNCHANGED token_cache

\* the key upload_to_s3 stores a file under
S3Key(file_name) == <<"t","e","m","p","/">> \o file_name

\* the sidebar's uploader, shown while no file is uploaded: upload_to_s3
\* stores the file and the session remembers it, or fails (ClientError gives
\* None, any other exception ends the script) and the session is as before
sidebar_upload ==
    /\ ~csv_uploaded
    /\ \E file_name \in Files :
          \/ /\ s3' = s3 \cup {S3Key(file_name)}
             /\ file_info' = [name |-> file_name, s3_key |-> S3Key(file_name)]
             /\ csv_uploaded' = TRUE
             /\ messages' = << >>
          \/ UNCHANGED <<s3, file_info, csv_uploaded, messages>>
    /\ UNCHANGED <<backend_vars, exchanges, token_cache, now, returned_token>>

\* the Remove File button: delete_from_s3 deletes the object or fails with a
\* ClientError (False, which the caller does not look at); then the session
\* forgets the file and the history
sidebar_remove ==
    /\ csv_uploaded
    /\ \/ s3' = s3 \ {file_info.s3_key}
       \/ UNCHANGED s3
    /\ csv_uploaded' = FALSE
    /\ messages' = << >>
    /\ file_info' = NoFileInfo
    /\ UNCHANGED <<backend_vars, exchanges, token_cache, now, returned_token>>

\* messages[-MAX_HISTORY:]
LastN(q, n) == IF Len(q) > n THEN SubSeq(q, Len(q) - n + 1, Len(q)) ELSE q

UserMessage(n) == [role |-> "user", exchange |-> n, error |-> FALSE]
AssistantMessage(n, error) == [role |-> "assistant", exchange |-> n, error |-> error]

\* a variant of chat_exchange that keeps the first MAX_HISTORY messages
chat_exchange_keeps_oldest ==
    /\ csv_uploaded
    /\ exchanges < MaxExchanges
    /\ exchanges' = exchanges + 1
    /\ get_or_refresh_token("csv")
    /\ LET user_input == UserMessage(exchanges')
           answer == AssistantMessage(exchanges', returned_token'.raised)
           history == messages \o <<user_input, answer>>
       IN messages' = IF Len(history) > MAX_HISTORY
                      THEN SubSeq(history, 1, MAX_HISTORY) ELSE history
    /\ UNCHANGED <<backend_vars, csv_uploaded, file_info, s3, now>>

\* the chat input: the user's message is added, the token is fetched and the
\* agent invoked, the answer (or the error, when the token call raises) is
\* added as the assistant's message, and the history is trimmed
chat_exchange ==
    /\ csv_uploaded
    /\ exchanges < MaxExchanges
    /\ exchanges' = exchanges + 1
    /\ get_or_refresh_token("csv")
    /\ LET user_input == UserMessage(exchanges')
           answer == AssistantMessage(exchanges', returned_token'.raised)
           history == messages \o <<user_input, answer>>
       IN messages' = IF Len(history) > MAX_HISTORY
                      THEN LastN(history, MAX_HISTORY) ELSE history
    /\ UNCHANGED <<backend_vars, csv_uploaded, file_info, s3, now>>

\* the Generate Dashboard button
dashboard_generate ==
    /\ csv_uploaded
    /\ get_or_refresh_token("dashboard")
    /\ UNCHANGED <<backend_vars, messages, csv_uploaded, file_info, s3, exchanges, now>>

InitUI == Init /\ disk = EMPTY /\ environ = {}

\* the chat of one session, with the clock standing still
NextChat ==
    \/ sidebar_upload
    \/ sidebar_remove
    \/ chat_exchange
    \/ dashboard_generate

SpecChat == InitUI /\ [][NextChat]_vars

\* chat inputs in the sessions in which the clock runs
TokenExchanges == 2

\* the chat input in the sessions in which the clock runs
chat_exchange_early ==
    /\ exchanges < TokenExchanges
    /\ chat_exchange

\* the tokens of one session over time
NextTokens ==
    \/ sidebar_upload
    \/ chat_exchange_early
    \/ dashboard_generate
    \/ tick

SpecTokens == InitUI /\ [][NextTokens]_vars

\* a token the endpoint of the task type issued less than TOKEN_TTL before
FreshTokenFor(token, task_type, at) ==
    /\ token # None
    /\ token.task = task_type
    /\ at - token.issued < TOKEN_TTL

\* C27: every token get_or_refresh_token returns for a task type is an access
\* token the endpoint issued for that task type less than 3300 seconds
\* before, and the cache holds under a task type only such a token: never
\* the other task type's, never the outcome of an answer without a token.
C27_OnlyFreshIssuedTokens ==
    /\ (returned_token # NoReturn /\ ~returned_token.raised =>
           FreshTokenFor(returned_token.token, returned_token.task, returned_token.at))
    /\ \A task_type \in TaskTypes :
           token_cache[task_type].present =>
               /\ token_cache[task_type].token # None
               /\ token_cache[task_type].token.task = task_type

\* C28: csv_uploaded is true exactly when file_info describes an uploaded
\* file; an upload that fails leaves csv_uploaded false and file_info empty;
\* an upload that succeeds and the Remove button empty the chat history; and
\* after Remove csv_uploaded is false, file_info is empty and the file is
\* no longer in the bucket.
C28_RemoveDeletesFile ==
    [][/\ (csv_uploaded' <=> file_info' # NoFileInfo)
       /\ (~csv_uploaded /\ csv_uploaded' =>
              /\ messages' = << >>
              /\ file_info'.s3_key \in s3')
       /\ (csv_uploaded /\ ~csv_uploaded' =>
              /\ messages' = << >>
              /\ file_info' = NoFileInfo
              /\ file_info.s3_key \notin s3')]_vars

\* C29: after every chat exchange the history has at most 25 messages; the
\* exchange, whether the agent answered or the call failed, adds one user
\* message and after it one assistant message, and what is kept besides
\* these two is the end of the history before, in the same order.
C29_HistoryKeepsNewest ==
    /\ [](Len(messages) <= MAX_HISTORY)
    /\ [][exchanges' = exchanges + 1 =>
             LET n == Len(messages')
                 kept == n - 2
             IN /\ n = IF Len(messages) + 2 > MAX_HISTORY
                        THEN MAX_HISTORY ELSE Len(messages) + 2
                /\ messages'[n - 1].role = "user"
                /\ messages'[n - 1].exchange = exchanges'
                /\ messages'[n].role = "assistant"
                /\ messages'[n].exchange = exchanges'
                /\ \A i \in 1..kept :
                       messages'[i] = messages[Len(messages) - kept + i]]_vars

C29_Witness ==
    /\ Len(messages) = MAX_HISTORY
    /\ messages[1].role = "assistant"
    /\ messages[MAX_HISTORY].exchange = exchanges
    /\ messages[MAX_HISTORY].exchange - messages[1].exchange = 12
    /\ \E i \in 1..MAX_HISTORY : messages[i].error

\* the query of the metric that execute_metrics is waiting for fails
MetricQueryFails(a) ==
    /\ pc[a] = "execute_metrics_wait"
    /\ ~execute_polars_sql(FilesOn(disk), <<csv_path[a]>>,
                           key_metrics(a)[Len(results[a]) + 1].sql, "csv").ok

\* C25: execute_metrics runs the queries one after the other in the order of
\* the list (the results so far are those of the first metrics, the query
\* awaited is that of the next one), and when a query fails the run ends with
\* an error: no list of results becomes the message handed to the render
\* stage, whatever results were there before the failure.
C25_MetricsAllOrNothing ==
    /\ [](\A a \in Agents :
            pc[a] \in {"execute_metrics", "execute_metrics_wait"} =>
                /\ Len(results[a]) <= Len(key_metrics(a))
                /\ (pc[a] = "execute_metrics_wait" =>
                       /\ Len(results[a]) < Len(key_metrics(a))
                       /\ "execute_polars_sql" \in inflight[a])
                /\ (pc[a] = "execute_metrics" => "execute_polars_sql" \notin inflight[a])
                /\ \A i \in 1..Len(results[a]) :
                       results[a][i].metric = key_metrics(a)[i].metric)
    /\ [][\A a \in Agents :
             MetricQueryFails(a) /\ pc'[a] # pc[a] =>
                 /\ pc'[a] = "idle"
                 /\ response'[a] = PIPELINE_ERROR_PREFIX \o ErrTool
                 /\ d_messages'[a] = d_messages[a]
                 /\ d_messages'[a].kind # "list"]_vars

C25_Witness ==
    \E a \in Agents :
        /\ pc[a] = "idle"
        /\ kind[a] = "dashboard"
        /\ response[a] = PIPELINE_ERROR_PREFIX \o ErrTool
        /\ Len(results[a]) >= 1

====
